---- MODULE Spec2Model ----
(***************************************************************************)
(* Messier Skymap Prototype (js/app.js): the page's module-level state,    *)
(* the asynchronous init() pipeline and the event handlers it installs.    *)
(*                                                                         *)
(* Strings are sequences of one-character strings.  The character U+2014   *)
(* (em dash) of the list-row text is written "EMDASH".  Angles (degrees)   *)
(* are fixed-point integers counting 1/Unit of a degree, which is exact    *)
(* for every value the code computes from integer pixel centres.           *)
(***************************************************************************)
EXTENDS Integers, Sequences, FiniteSets, TLC

\* ------------------------------------------------------------------ bounds
MaxCatalog == 2
MaxManifest == 2
MaxHotspotFetches == 2
MaxTimers == 2
MaxViewers == 2

\* ------------------------------------------------------- program constants
MosaicW == 8192
MosaicH == 4096
NumQuadrants == 4

\* fixed-point unit: 8 = gcd(360, MosaicW), so one pixel column, 360 / MosaicW of a
\* degree, is a whole number of units (and so is one pixel row, 180 / MosaicH)
Unit == MosaicW \div 8

Deg(n) == n * Unit

\* --------------------------------------------------------- JS string model
Null == <<"null">>

\* String.prototype.indexOf: the first 1-based position of sub in s, 0 if none
IndexOf(s, sub) ==
  LET hits == {i \in 1..(Len(s) - Len(sub) + 1) : SubSeq(s, i, i + Len(sub) - 1) = sub}
  IN IF hits = {} THEN 0 ELSE CHOOSE i \in hits : \A j \in hits : i <= j

\* String.prototype.includes
Includes(s, sub) == IndexOf(s, sub) # 0

\* String.prototype.replace(pat, '') with a string pattern: first occurrence only
ReplaceFirst(s, pat) ==
  LET i == IndexOf(s, pat)
  IN IF i = 0 THEN s ELSE SubSeq(s, 1, i - 1) \o SubSeq(s, i + Len(pat), Len(s))

\* text.split(sep)[0]
SplitFirst(s, sep) ==
  LET i == IndexOf(s, sep)
  IN IF i = 0 THEN s ELSE SubSeq(s, 1, i - 1)

\* a JS value is truthy unless it is undefined / null / the empty string
Truthy(s) == s # <<>>

Sep == <<" ", "EMDASH", " ">>
Suffix02 == <<"-", "0", "2">>
All == <<"a", "l", "l">>

\* ------------------------------------------------------------ input pools
M31 == <<"M", "3", "1">>
M42 == <<"M", "4", "2">>
M51 == <<"M", "5", "1">>
M57 == <<"M", "5", "7">>
M45 == <<"M", "4", "5">>
M51_02 == M51 \o Suffix02
M51_02_02 == M51_02 \o Suffix02

Galaxy == <<"g", "a", "l", "a", "x", "y">>
Nebula == <<"n", "e", "b", "u", "l", "a">>
PlanetaryNebula == <<"p", "l", "a", "n", "e", "t", "a", "r", "y", " ">> \o Nebula
Cluster == <<"c", "l", "u", "s", "t", "e", "r">>
NoType == <<>>

Andromeda == <<"A", "n", "d">>
Whirlpool == <<"W", "h", "i", "r", "l">>
\* a display name that itself holds the row separator
OrionName == <<"O", "r", "i">> \o Sep \o <<"N">>
Ring == <<"R", "i", "n", "g">>
Pleiades == <<"P", "l", "e", "i">>

Entry(id, name, type, ra, dec) ==
  [id |-> id, name |-> name, type |-> type, ra_decimal |-> ra, dec_decimal |-> dec]

\* catalog records (messier_data.json); ra/dec in 1/Unit degrees.  The last
\* one lies outside RA [0,360) and Dec [-90,90].
E31 == Entry(M31, Andromeda, Galaxy, Deg(10) + 696, Deg(41) + 276)
E42 == Entry(M42, OrionName, Nebula, Deg(83), 0 - Deg(5))
E57 == Entry(M57, Ring, PlanetaryNebula, Deg(283), Deg(33))
E45 == Entry(M45, Pleiades, NoType, Deg(400), 0 - Deg(95))
E51 == Entry(M51, Whirlpool, Galaxy, Deg(202), Deg(47))
E51b == Entry(M51_02, Whirlpool, Galaxy, Deg(202), Deg(47))
E51c == Entry(M51_02_02, Whirlpool, Galaxy, Deg(202), Deg(47))

\* sequences over pool of length <= n whose records have pairwise distinct ids
RECURSIVE SeqsUpTo(_, _)
SeqsUpTo(pool, n) ==
  IF n = 0 THEN {<<>>}
  ELSE LET shorter == SeqsUpTo(pool, n - 1)
       IN shorter \cup {Append(s, e) : s \in {t \in shorter : Len(t) = n - 1}, e \in pool}

UniqueIds(s) == \A i, j \in 1..Len(s) : s[i].id = s[j].id => i = j

CatalogsOver(pool) == {s \in SeqsUpTo(pool, MaxCatalog) : UniqueIds(s)}

Item(id, thumb, dzi) == [id |-> id, thumbnail |-> thumb, dzi |-> dzi]

\* manifest records (messier_dzi/manifest.json)
D31 == Item(M31, "M31_thumb.jpg", "M31.dzi")
D51 == Item(M51, "M51_thumb.jpg", "M51.dzi")
D51b == Item(M51_02, "M51-02_thumb.jpg", "M51-02.dzi")
D51x == Item(M51, "M51_alt_thumb.jpg", "M51_alt.dzi")

ManifestsOver(pool) == SeqsUpTo(pool, MaxManifest)

\* hotspot regions (output/messier_skymap_8k_hotspots.json)
Hotspot(id, cx, cy) == [id |-> id, center_px |-> <<cx, cy>>]

\* ------------------------------------------------------------------ state
VARIABLES
  pc,              \* where init() stands: between two awaits, done or failed
  loading,         \* loading screen texts: quadrant label, active ring, percentage, status label
  loadingScreen,   \* #loadingScreen: "visible", "hidden" (class added), "none" (display none)
  fetches,         \* per resource: fetches issued / failed, and whether one was issued after a failure
  messier,         \* let messier = []
  dziMap,          \* let dziMap = {}: object id -> manifest item
  manifestIndexed, \* the manifest.forEach of init has run
  listRows,        \* #objectList li: text and style.display
  objectCount,     \* number shown in #objectCount, -1 while buildList has not written it
  markers,         \* let markers = []: {id, marker} with the marker's position and style
  mapReady,        \* map has been created by setupMap
  mapView,         \* the view last set with setView: <<lat, lng, zoom>>
  skymapLayer,     \* let skymapLayer = null: 0, or the tile layer referenced
  tileLayers,      \* skymap tile layers currently added to the map
  currentView,     \* let currentView = 'sky'
  gridLayers,      \* number of L.Grid layers on the map
  handlers,        \* handlers installed: "search", "filter", "skymap"
  hsPending,       \* hotspot fetches in flight (click handlers suspended at their await)
  hotspotFeatures, \* let hotspotFeatures = []
  hotspotMarkers,  \* anchor markers added by the click handler, each with the region h its click closes over
  lastFilter,      \* argument of the last filterByType call, Null before the first
  modal,           \* #detailModal: hidden flag and the id of the object in its title
  thumbSrc,        \* #thumb src
  osdWrapHidden,   \* #osdViewer has class hidden
  thumbWrapHidden, \* #thumbWrap has class hidden
  timers,          \* pending 800 ms timers of openDetail, oldest first
  osdViewer,       \* let osdViewer = null: 0, or the number of the viewer instance
  viewer           \* viewer history: instances constructed, descriptor open, outcome of the last open()

initVars == <<pc, loading, loadingScreen>>
dataVars == <<messier, dziMap, manifestIndexed>>
listVars == <<listRows, objectCount>>
mapVars == <<markers, mapReady, mapView>>
layerVars == <<skymapLayer, tileLayers, currentView, gridLayers>>
hotspotVars == <<hsPending, hotspotFeatures, hotspotMarkers>>
detailVars == <<modal, thumbSrc, osdWrapHidden, thumbWrapHidden, timers, osdViewer, viewer>>
vars == <<initVars, fetches, dataVars, listVars, mapVars, layerVars, handlers,
          hotspotVars, lastFilter, detailVars>>

Resources == {"catalog", "manifest", "hotspots"}

NoEntry == [id |-> <<>>, thumbnail |-> "", dzi |-> ""]

Init ==
  /\ pc = "load"
  /\ loading = [label |-> 0, active |-> 0, text |-> 0, status |-> "LOADING"]
  /\ loadingScreen = "visible"
  /\ fetches = [r \in Resources |-> [issued |-> 0, failed |-> 0, retried |-> FALSE]]
  /\ messier = <<>>
  /\ dziMap = <<>>
  /\ manifestIndexed = FALSE
  /\ listRows = <<>>
  /\ objectCount = -1
  /\ markers = <<>>
  /\ mapReady = FALSE
  /\ mapView = <<0, 0, 0>>
  /\ skymapLayer = 0
  /\ tileLayers = {}
  /\ currentView = "sky"
  /\ gridLayers = 0
  /\ handlers = {}
  /\ hsPending = 0
  /\ hotspotFeatures = <<>>
  /\ hotspotMarkers = <<>>
  /\ lastFilter = Null
  /\ modal = [hidden |-> TRUE, title |-> <<>>]
  /\ thumbSrc = <<>>
  /\ osdWrapHidden = TRUE
  /\ thumbWrapHidden = FALSE
  /\ timers = <<>>
  /\ osdViewer = 0
  /\ viewer = [constructed |-> 0, source |-> <<>>, owner |-> <<>>, lastOpen |-> "none"]

\* ------------------------------------------------------- loading progress
\* updateLoadingProgress(progress): the page has rings .progress-ring-q1 .. q4;
\* for another quadrant number activateQuadrant finds no element and throws
\* after the active class was removed from every ring, so the percentage text
\* is not reached (the rejected promise is not awaited by init).
UpdateLoadingProgress(l, progress) ==
  LET quadrant == (progress \div 25) + 1
  IN IF quadrant \in 1..NumQuadrants
     THEN [l EXCEPT !.label = quadrant, !.active = quadrant, !.text = progress]
     ELSE [l EXCEPT !.label = quadrant, !.active = 0]

RECURSIVE ProgressSteps(_, _)
ProgressSteps(l, ps) ==
  IF ps = <<>> THEN l ELSE ProgressSteps(UpdateLoadingProgress(l, Head(ps)), Tail(ps))

\* a fetch of resource r is issued
IssueFetch(f, r) ==
  [f EXCEPT ![r] = [@ EXCEPT !.issued = @ + 1, !.retried = @ \/ (f[r].failed > 0)]]

FailFetch(f, r) == [f EXCEPT ![r] = [@ EXCEPT !.failed = @ + 1]]

\* the catch block of init
InitCatch ==
  /\ pc' = "failed"
  /\ loading' = [loading EXCEPT !.status = "ERROR"]

\* --------------------------------------------------------------- builders
\* buildList: one row per catalog record, text `${o.id} <em dash> ${o.name}`
RowText(o) == o.id \o Sep \o o.name

BuildList(cat) == [i \in 1..Len(cat) |-> [text |-> RowText(cat[i]), display |-> ""]]

\* a latitude clamped to [-90, 90] degrees
PlanarLat_Clamped(o) ==
  IF o.dec_decimal > Deg(90) THEN Deg(90)
  ELSE IF o.dec_decimal < 0 - Deg(90) THEN 0 - Deg(90) ELSE o.dec_decimal

\* celestial to planar, as setupMap and gotoObject compute it
PlanarLat(o) == o.dec_decimal
PlanarLng(o) == o.ra_decimal - Deg(180)

\* marker.setStyle arguments of filterByType, in hundredths (radius in pixels)
FullStyle == [opacity |-> 100, fillOpacity |-> 90, radius |-> 6]
DimStyle == [opacity |-> 15, fillOpacity |-> 10, radius |-> 4]

\* setupMap: the circle marker of a record (Leaflet's default stroke opacity is 1)
NewMarker(o) ==
  [id |-> o.id, lat |-> PlanarLat(o), lng |-> PlanarLng(o), style |-> FullStyle]

SetupMarkers(cat) == [i \in 1..Len(cat) |-> NewMarker(cat[i])]

\* manifest.forEach(item => dziMap[item.id] = item): a later item replaces an earlier one
IndexManifest(manifest) ==
  [k \in {manifest[i].id : i \in 1..Len(manifest)} |->
     manifest[CHOOSE i \in 1..Len(manifest) :
                /\ manifest[i].id = k
                /\ \A j \in 1..Len(manifest) : manifest[j].id = k => j <= i]]

\* ------------------------------------------------------------------- init
\* window load: init() runs up to its first await (500 ms)
InitStart ==
  /\ pc = "load"
  /\ loading' = UpdateLoadingProgress(loading, 5)
  /\ pc' = "sleep1"
  /\ UNCHANGED <<loadingScreen, fetches, dataVars, listVars, mapVars, layerVars, handlers,
                 hotspotVars, lastFilter, detailVars>>

\* after the 500 ms: progress 15 and the catalog fetch is issued
InitFetchCatalog ==
  /\ pc = "sleep1"
  /\ loading' = UpdateLoadingProgress(loading, 15)
  /\ fetches' = IssueFetch(fetches, "catalog")
  /\ pc' = "awaitCatalog"
  /\ UNCHANGED <<loadingScreen, dataVars, listVars, mapVars, layerVars, handlers,
                 hotspotVars, lastFilter, detailVars>>

\* an init that builds the list and the markers as soon as the catalog is in
CatalogFetchOk_SetupEarly(cat) ==
  /\ pc = "awaitCatalog"
  /\ messier' = cat
  /\ loading' = UpdateLoadingProgress(loading, 25)
  /\ listRows' = BuildList(cat)
  /\ objectCount' = Len(cat)
  /\ markers' = markers \o SetupMarkers(cat)
  /\ pc' = "sleep2"
  /\ UNCHANGED <<loadingScreen, fetches, dziMap, manifestIndexed, mapReady, mapView, layerVars,
                 handlers, hotspotVars, lastFilter, detailVars>>

\* fetchJSON(DATA_PATH) resolves with the catalog
CatalogFetchOk(cat) ==
  /\ pc = "awaitCatalog"
  /\ messier' = cat
  /\ loading' = UpdateLoadingProgress(loading, 25)
  /\ pc' = "sleep2"
  /\ UNCHANGED <<loadingScreen, fetches, dziMap, manifestIndexed, listVars, mapVars, layerVars,
                 handlers, hotspotVars, lastFilter, detailVars>>

\* fetchJSON(DATA_PATH) rejects (network or parse failure)
CatalogFetchFail ==
  /\ pc = "awaitCatalog"
  /\ fetches' = FailFetch(fetches, "catalog")
  /\ InitCatch
  /\ UNCHANGED <<loadingScreen, dataVars, listVars, mapVars, layerVars, handlers,
                 hotspotVars, lastFilter, detailVars>>

\* after the 300 ms: progress 30 and the manifest fetch is issued
InitFetchManifest ==
  /\ pc = "sleep2"
  /\ loading' = UpdateLoadingProgress(loading, 30)
  /\ fetches' = IssueFetch(fetches, "manifest")
  /\ pc' = "awaitManifest"
  /\ UNCHANGED <<loadingScreen, dataVars, listVars, mapVars, layerVars, handlers,
                 hotspotVars, lastFilter, detailVars>>

\* fetchJSON(DZI_MANIFEST) resolves: the manifest is indexed by object id
ManifestFetchOk(manifest) ==
  /\ pc = "awaitManifest"
  /\ dziMap' = IndexManifest(manifest)
  /\ manifestIndexed' = TRUE
  /\ loading' = UpdateLoadingProgress(loading, 40)
  /\ pc' = "sleep3"
  /\ UNCHANGED <<loadingScreen, fetches, messier, listVars, mapVars, layerVars, handlers,
                 hotspotVars, lastFilter, detailVars>>

\* an init that swallows the manifest failure and goes on with an empty index
ManifestFetchFail_Swallowed ==
  /\ pc = "awaitManifest"
  /\ fetches' = FailFetch(fetches, "manifest")
  /\ pc' = "sleep3"
  /\ UNCHANGED <<loading, loadingScreen, dataVars, listVars, mapVars, layerVars, handlers,
                 hotspotVars, lastFilter, detailVars>>

\* fetchJSON(DZI_MANIFEST) rejects (network or parse failure)
ManifestFetchFail ==
  /\ pc = "awaitManifest"
  /\ fetches' = FailFetch(fetches, "manifest")
  /\ InitCatch
  /\ UNCHANGED <<loadingScreen, dataVars, listVars, mapVars, layerVars, handlers,
                 hotspotVars, lastFilter, detailVars>>

\* after the 300 ms: buildList, setupMap, setupSearch, setupFilters,
\* setupSkymapOverlay, all synchronous, up to the next await
InitSetup ==
  /\ pc = "sleep3"
  /\ loading' = ProgressSteps(loading, <<50, 55, 65, 75, 80, 90, 95>>)
  /\ listRows' = BuildList(messier)
  /\ objectCount' = Len(messier)
  /\ mapReady' = TRUE
  /\ mapView' = <<0, Deg(180), 2>>
  /\ skymapLayer' = 1
  /\ tileLayers' = {1}
  /\ markers' = markers \o SetupMarkers(messier)
  /\ handlers' = {"search", "filter", "skymap"}
  /\ pc' = "sleep4"
  /\ UNCHANGED <<loadingScreen, fetches, dataVars, currentView, gridLayers,
                 hotspotVars, lastFilter, detailVars>>

\* after the last 300 ms: progress 100 and the 800 ms timer of hideLoadingScreen
InitFinish ==
  /\ pc = "sleep4"
  /\ loading' = UpdateLoadingProgress(loading, 100)
  /\ pc' = "done"
  /\ UNCHANGED <<loadingScreen, fetches, dataVars, listVars, mapVars, layerVars, handlers,
                 hotspotVars, lastFilter, detailVars>>

\* hideLoadingScreen, fired by the timer init set
HideLoadingScreen ==
  /\ pc = "done"
  /\ loadingScreen = "visible"
  /\ loadingScreen' = "hidden"
  /\ UNCHANGED <<pc, loading, fetches, dataVars, listVars, mapVars, layerVars, handlers,
                 hotspotVars, lastFilter, detailVars>>

\* the 500 ms timer of hideLoadingScreen
LoadingDisplayNone ==
  /\ loadingScreen = "hidden"
  /\ loadingScreen' = "none"
  /\ UNCHANGED <<pc, loading, fetches, dataVars, listVars, mapVars, layerVars, handlers,
                 hotspotVars, lastFilter, detailVars>>

\* ----------------------------------------------------------------- filter
\* a filter that compares the type for equality instead of containment
Matches_Equal(obj, type) == (type = All) \/ (obj.type = type)

\* the predicate both loops of filterByType evaluate
Matches(obj, type) == (type = All) \/ (Truthy(obj.type) /\ Includes(obj.type, type))

\* messier.find(o => o.id === id), as an index into messier (0: undefined)
\* (Array.prototype.find returns the first match)
FindById(id) ==
  LET hits == {i \in 1..Len(messier) : messier[i].id = id}
  IN IF hits = {} THEN 0 ELSE CHOOSE i \in hits : \A j \in hits : i <= j

\* a row id taken without splitting the text at the separator
RowId_NoSplit(text) == text

\* the object id a list row is taken to show: text.split(' <em dash> ')[0]
RowId(text) == SplitFirst(text, Sep)

FilterMarker(m, type) ==
  LET k == FindById(m.id)
  IN IF k = 0 THEN m
     ELSE [m EXCEPT !.style = IF Matches(messier[k], type) THEN FullStyle ELSE DimStyle]

FilterRow(li, type) ==
  LET k == FindById(RowId(li.text))
  IN IF k = 0 THEN li
     ELSE [li EXCEPT !.display = IF Matches(messier[k], type) THEN "block" ELSE "none"]

\* #typeFilter onchange -> filterByType(sel.value)
FilterByType(type) ==
  /\ "filter" \in handlers
  /\ markers' = [i \in 1..Len(markers) |-> FilterMarker(markers[i], type)]
  /\ listRows' = [i \in 1..Len(listRows) |-> FilterRow(listRows[i], type)]
  /\ lastFilter' = type
  /\ UNCHANGED <<initVars, fetches, dataVars, objectCount, mapReady, mapView, layerVars,
                 handlers, hotspotVars, detailVars>>

\* ----------------------------------------------------------------- detail
\* dziMap[key], NoEntry for undefined
Lookup(key) == IF key \in DOMAIN dziMap THEN dziMap[key] ELSE NoEntry

\* a lookup without the suffix fallback
ResolveEntry_ExactOnly(id) == Lookup(id)

\* const entry = dziMap[o.id] || dziMap[o.id.replace('-02','')]
ResolveEntry(id) ==
  IF Lookup(id) # NoEntry THEN Lookup(id) ELSE Lookup(ReplaceFirst(id, Suffix02))

Placeholder == <<"output.jpg">>
DziUrl(file) == <<"messier_dzi/", file>>

\* openDetail(o)
OpenDetail(o) ==
  LET entry == ResolveEntry(o.id)
  IN /\ modal' = [hidden |-> FALSE, title |-> o.id]
     /\ osdWrapHidden' = TRUE
     /\ thumbWrapHidden' = FALSE
     /\ IF entry # NoEntry
        THEN /\ Len(timers) < MaxTimers
             /\ thumbSrc' = DziUrl(entry.thumbnail)
             /\ timers' = Append(timers, [oid |-> o.id, entry |-> entry])
        ELSE /\ thumbSrc' = Placeholder
             /\ timers' = timers
     /\ UNCHANGED <<osdViewer, viewer>>

\* an openDZI that constructs a viewer on every call
OpenDZI_AlwaysConstructs(oid, dziPath, throws) ==
  /\ viewer.constructed < MaxViewers
  /\ osdViewer' = viewer.constructed + 1
  /\ viewer' = [constructed |-> viewer.constructed + 1, source |-> DziUrl(dziPath),
                owner |-> oid, lastOpen |-> viewer.lastOpen]

\* openDZI(dziPath) for the timer of object oid; throws: osdViewer.open throws
OpenDZI(oid, dziPath, throws) ==
  IF osdViewer # 0 /\ ~throws
  THEN /\ osdViewer' = osdViewer
       /\ viewer' = [viewer EXCEPT !.source = DziUrl(dziPath), !.owner = oid, !.lastOpen = "ok"]
  ELSE /\ viewer.constructed < MaxViewers
       /\ osdViewer' = viewer.constructed + 1
       /\ viewer' = [constructed |-> viewer.constructed + 1, source |-> DziUrl(dziPath),
                     owner |-> oid,
                     lastOpen |-> IF osdViewer # 0 THEN "threw" ELSE viewer.lastOpen]

\* the 800 ms timer callback of openDetail
TimerFire(throws) ==
  /\ timers # <<>>
  /\ throws => osdViewer # 0
  /\ osdWrapHidden' = FALSE
  /\ thumbWrapHidden' = TRUE
  /\ OpenDZI(Head(timers).oid, Head(timers).entry.dzi, throws)
  /\ timers' = Tail(timers)
  /\ UNCHANGED <<initVars, fetches, dataVars, listVars, mapVars, layerVars, handlers,
                 hotspotVars, lastFilter, modal, thumbSrc>>

\* marker.on('click', () => openDetail(o)) of the i-th catalog marker
MarkerClick(i) ==
  /\ i \in 1..Len(markers)
  /\ OpenDetail(messier[i])
  /\ UNCHANGED <<initVars, fetches, dataVars, listVars, mapVars, layerVars, handlers,
                 hotspotVars, lastFilter>>

\* gotoObject(o): li.onclick of the i-th list row
GotoObject(i) ==
  /\ i \in 1..Len(listRows)
  /\ mapView' = <<PlanarLat(messier[i]), PlanarLng(messier[i]), 6>>
  /\ OpenDetail(messier[i])
  /\ UNCHANGED <<initVars, fetches, dataVars, listVars, markers, mapReady, layerVars, handlers,
                 hotspotVars, lastFilter>>

\* document click listener on #closeModal
CloseModal ==
  /\ ~modal.hidden
  /\ modal' = [modal EXCEPT !.hidden = TRUE]
  /\ UNCHANGED <<initVars, fetches, dataVars, listVars, mapVars, layerVars, handlers,
                 hotspotVars, lastFilter, thumbSrc, osdWrapHidden, thumbWrapHidden, timers,
                 osdViewer, viewer>>

\* ---------------------------------------------------------------- skymap
\* L.tileLayer(...): a layer that is neither on the map nor referenced
NewLayer == CHOOSE n \in 1..3 : n \notin tileLayers \cup {skymapLayer}

\* pixel centre to celestial, as the hotspot loop computes it: (cx / w) * 360.0
\* and 90.0 - (cy / hgt) * 180.0.  One pixel column is (360 * Unit) / MosaicW = 45
\* and one pixel row (180 * Unit) / MosaicH = 45 fixed-point units, without remainder.
PixelToRa(cx) == cx * ((360 * Unit) \div MosaicW)

\* a declination that grows with the pixel row instead of falling
PixelToDec_NotInverted(cy) == cy * ((180 * Unit) \div MosaicH) - Deg(90)

PixelToDec(cy) == Deg(90) - cy * ((180 * Unit) \div MosaicH)

\* the anchor marker of a hotspot region
AnchorMarker(h) ==
  LET ra == PixelToRa(h.center_px[1])
      dec == PixelToDec(h.center_px[2])
  IN [h |-> h, lat |-> dec, lng |-> ra - Deg(180)]

\* #toggleSkymap onclick, up to its return or its await
ToggleSkymapClick ==
  /\ "skymap" \in handlers
  /\ IF skymapLayer # 0
     THEN /\ tileLayers' = tileLayers \ {skymapLayer}
          /\ skymapLayer' = 0
          /\ UNCHANGED <<fetches, hsPending>>
     ELSE /\ fetches["hotspots"].issued < MaxHotspotFetches
          /\ skymapLayer' = NewLayer
          /\ tileLayers' = tileLayers \cup {NewLayer}
          /\ fetches' = IssueFetch(fetches, "hotspots")
          /\ hsPending' = hsPending + 1
  /\ UNCHANGED <<initVars, dataVars, listVars, mapVars, currentView, gridLayers, handlers,
                 hotspotFeatures, hotspotMarkers, lastFilter, detailVars>>

\* the hotspot fetch resolves: the handler resumes inside its try block
HotspotFetchOk(hs) ==
  /\ hsPending > 0
  /\ hsPending' = hsPending - 1
  /\ hotspotFeatures' = hs
  /\ hotspotMarkers' = hotspotMarkers \o [i \in 1..Len(hs) |-> AnchorMarker(hs[i])]
  /\ UNCHANGED <<initVars, fetches, dataVars, listVars, mapVars, layerVars, handlers,
                 lastFilter, detailVars>>

\* a handler that takes the overlay back off and reports an error when the fetch fails
HotspotFetchFail_Fatal ==
  /\ hsPending > 0
  /\ hsPending' = hsPending - 1
  /\ fetches' = FailFetch(fetches, "hotspots")
  /\ loading' = [loading EXCEPT !.status = "ERROR"]
  /\ tileLayers' = tileLayers \ {skymapLayer}
  /\ skymapLayer' = 0
  /\ UNCHANGED <<pc, loadingScreen, dataVars, listVars, mapVars, currentView, gridLayers, handlers,
                 hotspotFeatures, hotspotMarkers, lastFilter, detailVars>>

\* the hotspot fetch or its parse rejects: catch(e){ console.warn(...) }
HotspotFetchFail ==
  /\ hsPending > 0
  /\ hsPending' = hsPending - 1
  /\ fetches' = FailFetch(fetches, "hotspots")
  /\ UNCHANGED <<initVars, dataVars, listVars, mapVars, layerVars, handlers,
                 hotspotFeatures, hotspotMarkers, lastFilter, detailVars>>

\* click on the k-th anchor marker: messier.find(m => m.id === h.id), then openDetail
HotspotMarkerClick(k) ==
  /\ k \in 1..Len(hotspotMarkers)
  /\ LET i == FindById(hotspotMarkers[k].h.id)
     IN IF i # 0 THEN OpenDetail(messier[i]) ELSE UNCHANGED detailVars
  /\ UNCHANGED <<initVars, fetches, dataVars, listVars, mapVars, layerVars, handlers,
                 hotspotVars, lastFilter>>

\* toggleMapView(), called by the page's map control once the map exists
ToggleMapView ==
  /\ mapReady
  /\ IF currentView = "sky"
     THEN /\ currentView' = "grid"
          /\ tileLayers' = tileLayers \ {skymapLayer}
          /\ gridLayers' = gridLayers + 1
          /\ skymapLayer' = skymapLayer
     ELSE /\ currentView' = "sky"
          /\ gridLayers' = 0
          /\ IF skymapLayer = 0
             THEN /\ skymapLayer' = NewLayer
                  /\ tileLayers' = tileLayers \cup {NewLayer}
             ELSE UNCHANGED <<skymapLayer, tileLayers>>
  /\ UNCHANGED <<initVars, fetches, dataVars, listVars, mapVars, handlers,
                 hotspotVars, lastFilter, detailVars>>

\* ---------------------------------------------------------- specifications
\* init() from page load to its end, over the catalogs and manifests served
InitSteps(catalogs, manifests) ==
  \/ InitStart
  \/ InitFetchCatalog
  \/ \E cat \in catalogs : CatalogFetchOk(cat)
  \/ CatalogFetchFail
  \/ InitFetchManifest
  \/ \E manifest \in manifests : ManifestFetchOk(manifest)
  \/ ManifestFetchFail
  \/ InitSetup
  \/ InitFinish
  \/ HideLoadingScreen
  \/ LoadingDisplayNone

H51b == Hotspot(M51_02, 4096, 2048)
H99 == Hotspot(<<"M", "9", "9">>, 0, 0)

CoreCatalogs == {<<E31, E51b>>}
CoreManifests == {<<D51>>}
CoreHotspots == {<<H51b, H99>>}
CoreFilters == {Nebula}

\* the whole page
Next ==
  \/ InitSteps(CoreCatalogs, CoreManifests)
  \/ \E type \in CoreFilters : FilterByType(type)
  \/ \E i \in 1..Len(markers) : MarkerClick(i)
  \/ \E i \in 1..Len(listRows) : GotoObject(i)
  \/ \E throws \in BOOLEAN : TimerFire(throws)
  \/ CloseModal
  \/ ToggleSkymapClick
  \/ \E hs \in CoreHotspots : HotspotFetchOk(hs)
  \/ HotspotFetchFail
  \/ \E k \in 1..Len(hotspotMarkers) : HotspotMarkerClick(k)
  \/ ToggleMapView

Spec == Init /\ [][Next]_vars

\* the type filter over catalogs of every type shape
FilterCatalogs == CatalogsOver({E31, E42, E57, E45})
Planetary == SubSeq(PlanetaryNebula, 1, 9)
FilterValues == {All, Galaxy, Nebula, Cluster, Planetary}

NextFilter ==
  \/ InitSteps(FilterCatalogs, {<<D31>>})
  \/ \E type \in FilterValues : FilterByType(type)

SpecFilter == Init /\ [][NextFilter]_vars

\* detail views over manifests that hold, lack or repeat the keys looked up
DetailCatalogs == {<<E51b, E31>>, <<E51c, E51>>}
DetailManifests == ManifestsOver({D51, D51b, D51x})

NextDetail ==
  \/ InitSteps(DetailCatalogs, DetailManifests)
  \/ \E i \in 1..Len(markers) : MarkerClick(i)
  \/ \E throws \in BOOLEAN : TimerFire(throws)
  \/ CloseModal

SpecDetail == Init /\ [][NextDetail]_vars

\* marker, view and anchor positions over coordinates in and out of range
ProjCatalogs == CatalogsOver({E31, E42, E45})
ProjHotspots ==
  { <<Hotspot(M31, 0, 0), Hotspot(M42, MosaicW, MosaicH)>>,
    <<Hotspot(M45, 4096, 2048), Hotspot(M31, 1, 4095)>> }

NextProj ==
  \/ InitSteps(ProjCatalogs, {<<>>})
  \/ \E i \in 1..Len(listRows) : GotoObject(i)
  \/ ToggleSkymapClick
  \/ \E hs \in ProjHotspots : HotspotFetchOk(hs)

SpecProj == Init /\ [][NextProj]_vars

\* ------------------------------------------------------------- properties
RowShown(i) == listRows[i].display # "none"
MarkerFull(i) == markers[i].style.opacity = 100

\* identifiers of the records whose list row is displayed / whose marker is full-opacity
ShownIds == {messier[i].id : i \in {j \in 1..Len(listRows) : RowShown(j)}}
FullOpacityIds == {markers[i].id : i \in {j \in 1..Len(markers) : MarkerFull(j)}}

\* C1: for every catalog loaded and after any sequence of filterByType calls, the
\* identifiers whose list row is displayed are exactly the identifiers whose map
\* marker is in the full-opacity style.
C1_ListAndMarkersInSync == ShownIds = FullOpacityIds

\* a filter has hidden one row and kept another, whose name holds the separator
C1_Witness ==
  /\ lastFilter = Nebula
  /\ \E i \in 1..Len(listRows) : ~RowShown(i) /\ ~MarkerFull(i)
  /\ \E i \in 1..Len(listRows) :
       RowShown(i) /\ MarkerFull(i) /\ listRows[i].display = "block" /\ messier[i] = E42

\* s occurs in t as a run of consecutive characters
OccursIn(s, t) == \E a, b \in 0..Len(t) : a + Len(s) = b /\ SubSeq(t, a + 1, b) = s

\* what the claim takes a record to match
ClaimedMatch(o, f) == f = All \/ OccursIn(f, o.type)

\* C6: after filterByType(f), a record is treated as matching (marker in full style,
\* row displayed as block) exactly when f is "all" or its type contains f, and as not
\* matching (marker dimmed, row hidden) otherwise; "all" matches every record and a
\* "galaxy" record does not match "nebula".
C6_FilterMatchesByContainment ==
  lastFilter # Null =>
    \A i \in 1..Len(markers) :
      /\ markers[i].style = (IF ClaimedMatch(messier[i], lastFilter) THEN FullStyle ELSE DimStyle)
      /\ listRows[i].display = (IF ClaimedMatch(messier[i], lastFilter) THEN "block" ELSE "none")
      /\ lastFilter = All => markers[i].style = FullStyle
      /\ (lastFilter = Nebula /\ messier[i].type = Galaxy) => markers[i].style = DimStyle

\* "nebula" applied to a galaxy, a planetary nebula or a record without a type
C6_Witness ==
  /\ lastFilter = Nebula
  /\ Len(markers) = 2
  /\ \E i \in 1..Len(markers) : messier[i].type = Galaxy /\ markers[i].style = DimStyle
  /\ \E i \in 1..Len(markers) :
       messier[i].type \in {PlanetaryNebula, NoType} /\ listRows[i].display # ""

\* C4: the marker setupMap builds for a record, and the view centre gotoObject
\* sets for it, are at (lat, lng) = (dec, ra - 180) exactly, unclamped.
C4_PlanarIsDecAndRaMinus180 ==
  /\ \A i \in 1..Len(markers) :
       /\ markers[i].lat = messier[i].dec_decimal
       /\ markers[i].lng = messier[i].ra_decimal - 180 * Unit
  /\ mapView[3] = 6 =>
       \E i \in 1..Len(messier) :
         /\ messier[i].id = modal.title
         /\ mapView[1] = messier[i].dec_decimal
         /\ mapView[2] = messier[i].ra_decimal - 180 * Unit

\* gotoObject on a record south of Dec -90 and past RA 360, with its marker built
C4_Witness ==
  /\ mapView = <<0 - Deg(95), Deg(220), 6>>
  /\ modal.title = M45
  /\ \E i \in 1..Len(markers) : markers[i].lat = 0 - Deg(95) /\ markers[i].lng = Deg(220)

\* C5: an anchor marker of a region with centre pixel (cx, cy) is at
\* (lat, lng) = (90 - (cy/4096)*180, (cx/8192)*360 - 180); pixel (0,0) is celestial
\* (0, 90), pixel (8192,4096) is (360, -90), and (4096,2048) is (180, 0), planar (0, 0).
C5_AnchorFromPixelCentre ==
  \A k \in 1..Len(hotspotMarkers) :
    LET m == hotspotMarkers[k]
        cx == m.h.center_px[1]
        cy == m.h.center_px[2]
    IN /\ (Deg(90) - m.lat) * (4096 \div Unit) = cy * 180
       /\ (m.lng + Deg(180)) * (8192 \div Unit) = cx * 360
       /\ (cx = 0 /\ cy = 0) => (m.lng + Deg(180) = 0 /\ m.lat = Deg(90))
       /\ (cx = 8192 /\ cy = 4096) => (m.lng + Deg(180) = Deg(360) /\ m.lat = 0 - Deg(90))
       /\ (cx = 4096 /\ cy = 2048) => (m.lng + Deg(180) = Deg(180) /\ m.lat = 0 /\ m.lng = 0)

\* anchors of the centre pixel and of a pixel off the whole-degree grid are on the map
C5_Witness ==
  /\ \E k \in 1..Len(hotspotMarkers) :
       /\ hotspotMarkers[k].h.center_px = <<4096, 2048>>
       /\ hotspotMarkers[k].lat = 0 /\ hotspotMarkers[k].lng = 0
  /\ \E k \in 1..Len(hotspotMarkers) : hotspotMarkers[k].h.center_px = <<1, 4095>>
  /\ \E k \in 1..Len(hotspotMarkers) : hotspotMarkers[k].h.center_px = <<0, 0>>

\* id with its first "-02" removed, stated by position: none removed if it has none
FirstSuffixAt(id, a) ==
  /\ SubSeq(id, a + 1, a + 3) = Suffix02
  /\ \A b \in 0..(a - 1) : SubSeq(id, b + 1, b + 3) # Suffix02

StrippedOnce(id) ==
  IF \E a \in 0..(Len(id) - 3) : FirstSuffixAt(id, a)
  THEN LET a == CHOOSE a \in 0..(Len(id) - 3) : FirstSuffixAt(id, a)
       IN [i \in 1..(Len(id) - 3) |-> IF i <= a THEN id[i] ELSE id[i + 3]]
  ELSE id

\* the entry the claim assigns to a detail view of id: the last manifest item keyed
\* id, else the last one keyed by the stripped id, else NoEntry (NotFound)
ClaimedEntry(id) ==
  IF id \in DOMAIN dziMap THEN dziMap[id]
  ELSE IF StrippedOnce(id) \in DOMAIN dziMap THEN dziMap[StrippedOnce(id)]
  ELSE NoEntry

\* C2: a detail view of object id X uses the manifest entry keyed X if there is one,
\* otherwise the entry keyed X with "-02" removed once; if both miss, the placeholder
\* image is shown and no deep-zoom opening is scheduled or made for that object.
\* "M51-02" uses the entry of "M51" when only "M51" is in the manifest.
C2_PyramidEntryResolution ==
  /\ modal.title # <<>> =>
       thumbSrc = (IF ClaimedEntry(modal.title) = NoEntry THEN Placeholder
                   ELSE DziUrl(ClaimedEntry(modal.title).thumbnail))
  /\ \A t \in 1..Len(timers) :
       timers[t].entry # NoEntry /\ timers[t].entry = ClaimedEntry(timers[t].oid)
  /\ viewer.owner # <<>> =>
       /\ ClaimedEntry(viewer.owner) # NoEntry
       /\ viewer.source = DziUrl(ClaimedEntry(viewer.owner).dzi)
  /\ (modal.title = M51_02 /\ DOMAIN dziMap = {M51}) => thumbSrc = DziUrl(dziMap[M51].thumbnail)

\* "M51-02" was opened with only "M51" in the manifest and the viewer shows M51's
\* descriptor for it, while the detail view now open found no entry
C2_Witness ==
  /\ DOMAIN dziMap = {M51}
  /\ viewer.owner = M51_02
  /\ viewer.source = DziUrl(D51.dzi)
  /\ modal.title = M31
  /\ thumbSrc = Placeholder
  /\ timers = <<>>

\* C10 as stated: no viewer exists before the first detail view whose object resolves
\* has fired its timer, and no second viewer is ever constructed.
C10_SingleViewerEver ==
  /\ (viewer.owner = <<>>) = (viewer.constructed = 0)
  /\ (osdViewer = 0) = (viewer.constructed = 0)
  /\ viewer.constructed <= 1

\* C10 amended: no viewer exists before the first resolved detail view has fired its
\* timer; once one exists openDZI opens the descriptor in that same instance, and it
\* constructs another only when that instance's open() throws.
C10_ViewerReusedUnlessOpenThrows ==
  /\ [](/\ (viewer.owner = <<>>) = (viewer.constructed = 0)
        /\ (osdViewer = 0) = (viewer.constructed = 0)
        /\ viewer.owner # <<>> => ClaimedEntry(viewer.owner) # NoEntry)
  /\ [][/\ viewer'.constructed # viewer.constructed =>
             /\ viewer'.constructed = viewer.constructed + 1
             /\ timers' = Tail(timers)
             /\ osdViewer = 0 \/ viewer'.lastOpen = "threw"
        /\ (osdViewer # 0 /\ timers' # timers /\ Len(timers') < Len(timers)
              /\ viewer'.lastOpen # "threw") =>
             /\ osdViewer' = osdViewer
             /\ viewer'.constructed = viewer.constructed
             /\ viewer'.source = DziUrl(Head(timers).entry.dzi)
        /\ viewer'.lastOpen = "threw" => viewer'.constructed >= 2]_vars

\* the one viewer has been given a second descriptor in place
C10_Witness ==
  /\ osdViewer = 1
  /\ viewer.constructed = 1
  /\ viewer.lastOpen = "ok"
  /\ viewer.source = DziUrl(D51b.dzi)

LoadFailed == fetches["catalog"].failed > 0 \/ fetches["manifest"].failed > 0

\* C3: once the catalog or the manifest fetch has failed, init is halted in its catch
\* block with the error label shown, and the list, the markers and map, the search,
\* filter and skymap handlers are never set up and the loading screen is never hidden.
C3_LoadFailureHaltsInit ==
  /\ LoadFailed =>
       /\ pc = "failed"
       /\ loading.status = "ERROR"
       /\ listRows = <<>> /\ objectCount = -1
       /\ markers = <<>> /\ ~mapReady /\ tileLayers = {}
       /\ handlers = {}
       /\ loadingScreen = "visible"
  /\ loading.status = "ERROR" => LoadFailed

\* the catalog was loaded and the manifest fetch failed
C3_Witness ==
  /\ fetches["manifest"].failed = 1
  /\ messier # <<>>
  /\ loading.status = "ERROR"
  /\ loading.text = 30

FetchDone(r, before) ==
  /\ fetches[r].issued = 1
  /\ fetches[r].failed = 0
  /\ pc \notin before

\* C7: list and marker construction have begun only when the catalog fetch and the
\* manifest fetch have both completed successfully and the manifest has been indexed.
C7_SetupAfterBothFetches ==
  (objectCount # -1 \/ listRows # <<>> \/ markers # <<>> \/ mapReady) =>
    /\ FetchDone("catalog", {"load", "sleep1", "awaitCatalog", "failed"})
    /\ FetchDone("manifest", {"load", "sleep1", "awaitCatalog", "sleep2", "awaitManifest", "failed"})
    /\ manifestIndexed
    /\ DOMAIN dziMap # {}

\* the list and the markers are built from the loaded catalog, the manifest is indexed
C7_Witness ==
  /\ mapReady
  /\ Len(markers) = 2 /\ Len(listRows) = 2
  /\ DOMAIN dziMap = {M51}

HotspotFailed == fetches["hotspots"].failed > 0

\* C8: a failed hotspot fetch is not fatal: no error state, the handler that catches
\* it leaves the catalog, the catalog markers and the tile layer of its click as they
\* are, and the toggle button keeps its handler and answers the next click.
C8_HotspotFailureNotFatal ==
  /\ [](HotspotFailed =>
          /\ loading.status # "ERROR" /\ pc # "failed"
          /\ "skymap" \in handlers
          /\ (skymapLayer # 0 \/ fetches["hotspots"].issued < MaxHotspotFetches)
               => ENABLED ToggleSkymapClick)
  /\ [][fetches'["hotspots"].failed # fetches["hotspots"].failed =>
          UNCHANGED <<pc, loading, messier, markers, listRows, skymapLayer, tileLayers,
                      handlers, hotspotMarkers, hotspotFeatures>>]_vars

\* a hotspot fetch has failed and the overlay of that click is still on the map
C8_Witness ==
  /\ HotspotFailed
  /\ hsPending = 0
  /\ fetches["hotspots"].issued = 1
  /\ skymapLayer # 0 /\ skymapLayer \in tileLayers

\* C9: for each resource, once a fetch of it has failed no further fetch of it is issued.
C9_NoFetchAfterFailure == \A r \in Resources : ~fetches[r].retried

\* C11: whenever the deep-zoom pane is visible, the descriptor open in the viewer is
\* the one of the object most recently passed to openDetail (the object in the modal
\* title); so the pane is never visible while that object has no manifest entry.
C11_VisibleViewerShowsCurrentObject ==
  ~osdWrapHidden =>
    /\ ResolveEntry(modal.title) # NoEntry
    /\ viewer.owner = modal.title
    /\ viewer.source = DziUrl(ResolveEntry(modal.title).dzi)

\* C12: whenever skymapLayer is null (overlay toggled off), no hotspot anchor marker
\* remains on the map.
C12_NoAnchorsWhileOverlayOff == skymapLayer = 0 => hotspotMarkers = <<>>

\* skymapLayer references a layer exactly when one skymap tile layer is on the map,
\* and then it is that layer
LayerRefMatchesMap ==
  mapReady =>
    /\ (skymapLayer # 0) = (Cardinality(tileLayers) = 1)
    /\ Cardinality(tileLayers) <= 1
    /\ skymapLayer # 0 => skymapLayer \in tileLayers

\* C13: once the map exists, skymapLayer is non-null exactly when one skymap tile
\* layer is on the map (no stale reference to a removed layer, never two layers), so
\* whenever toggleMapView leaves currentView 'sky' a skymap tile layer is on the map.
C13_SkymapLayerTracksMap ==
  /\ []LayerRefMatchesMap
  /\ [][(currentView = "grid" /\ currentView' = "sky") => tileLayers' # {}]_vars

\* the progress value of the last updateLoadingProgress call init has made
LastProgress ==
  CASE pc = "load" -> 0
    [] pc = "sleep1" -> 5
    [] pc = "awaitCatalog" -> 15
    [] pc = "sleep2" -> 25
    [] pc = "awaitManifest" -> 30
    [] pc = "sleep3" -> 40
    [] pc = "sleep4" -> 95
    [] pc = "done" -> 100
    [] OTHER -> loading.text

\* the quadrant shown and activated is one of the four, and the percentage text is
\* the value last passed
QuadrantShownInRange ==
  pc # "load" =>
    /\ loading.label \in 1..4
    /\ loading.active = loading.label
    /\ loading.text = LastProgress

\* C14: for every progress value init passes (5 up to 100), the quadrant number
\* computed, shown in the label and activated lies in 1..4, and the call ends with
\* the percentage text set to that value; the progress shown never decreases.
C14_QuadrantInRangeAndTextSet ==
  /\ []QuadrantShownInRange
  /\ [][loading'.text >= loading.text]_vars

====
